---- MODULE Spec2Model ----
(***************************************************************************)
(* AutoBump (lib/pull-request/bump.ts): the construct that derives the     *)
(* properties of the underlying AutoPullRequest from AutoBumpProps.        *)
(*                                                                         *)
(* JavaScript values are modelled as follows.                              *)
(*   - a string is a TLA+ string; a template literal is a concatenation;   *)
(*   - an object is a function from its own keys to their values, so an    *)
(*     absent key is a key outside the DOMAIN;                             *)
(*   - the result of a property read is an optional: <<>> is `undefined`   *)
(*     and <<v>> is the value v.                                           *)
(***************************************************************************)
EXTENDS Integers, Sequences, FiniteSets, TLC

VARIABLES props, pr

vars == <<props, pr>>

-----------------------------------------------------------------------------
(* Bounds of the input space. *)

\* number of keys of the caller's exports map, taken from ExportKeyPool
MaxExportKeys == 2

-----------------------------------------------------------------------------
(* JavaScript primitives used by the constructor. *)

undefined == <<>>

\* o.k : the value at key k, or undefined when o has no such key
Get(o, k) == IF k \in DOMAIN o THEN <<o[k]>> ELSE undefined

\* o?.k where o is itself the result of a read
OptGet(o, k) == IF o = undefined THEN undefined ELSE Get(o[1], k)

\* a || d : every falsy string, the empty one included, yields d
OrElse(a, d) == IF a = undefined \/ a = <<"">> THEN d ELSE a[1]

\* a ?? d : only null/undefined yields d
Coalesce(a, d) == IF a = undefined THEN d ELSE a[1]

EmptyObject == [k \in {} |-> undefined]

\* { ...a, ...b } : own keys of both, b's value where both have the key
Spread(a, b) == [k \in DOMAIN a \cup DOMAIN b |-> IF k \in DOMAIN b THEN b[k] ELSE a[k]]

\* ...o inside an object literal, where o is the result of a read:
\* spreading undefined contributes no key
SpreadOpt(o) == IF o = undefined THEN EmptyObject ELSE o[1]

-----------------------------------------------------------------------------
(* The constructor, lines 96-117. *)

\* props.head?.name || 'bump/$VERSION'
BranchNameFalsy(p) == OrElse(OptGet(Get(p, "head"), "name"), "bump/$VERSION")

BranchName(p) == Coalesce(OptGet(Get(p, "head"), "name"), "bump/$VERSION")

BumpCommand(p) == Coalesce(Get(p, "bumpCommand"), "/bin/sh ./bump.sh")

VersionCommand(p) == Coalesce(Get(p, "versionCommand"), "git describe")

\* the default with the leading blank of the doc comment of `title`
TitleLeadingBlank(p) == Coalesce(Get(p, "title"), " chore(release): $VERSION")

Title(p) == Coalesce(Get(p, "title"), "chore(release): $VERSION")

\* the template literal of line 100
ChangelogLink(p, branchName) ==
    "See [CHANGELOG](https://github.com/" \o p.repo.owner \o "/" \o p.repo.repo
        \o "/blob/" \o branchName \o "/CHANGELOG.md)"

\* the link built from the default branch name instead of the resolved one
BodyDefaultBranch(p) == Coalesce(Get(p, "body"), ChangelogLink(p, "bump/$VERSION"))

Body(p) == Coalesce(Get(p, "body"), ChangelogLink(p, BranchName(p)))

\* source: props.head?.sha ?? 'master'
HeadLiteralDefaultSource(p) ==
    [name |-> BranchName(p), source |-> <<Coalesce(OptGet(Get(p, "head"), "sha"), "master")>>]

\* source: props.head?.source ?? props.head?.sha
HeadLiteralRawSource(p) ==
    [name |-> BranchName(p),
     source |-> IF OptGet(Get(p, "head"), "source") = undefined
                THEN OptGet(Get(p, "head"), "sha")
                ELSE OptGet(Get(p, "head"), "source")]

HeadLiteral(p) ==
    [name |-> BranchName(p), source |-> OptGet(Get(p, "head"), "sha")]

\* commands: [...(props.commands ?? []), bumpCommand]
CommandsLiteralKeepingCallers(p) == Coalesce(Get(p, "commands"), <<>>) \o <<BumpCommand(p)>>

CommandsLiteral(p) == <<BumpCommand(p)>>

\* { 'VERSION': versionCommand, ...props.exports }
ExportsLiteralCallerLast(p) ==
    Spread([VERSION |-> VersionCommand(p)], SpreadOpt(Get(p, "exports")))

ExportsLiteral(p) ==
    Spread(SpreadOpt(Get(p, "exports")), [VERSION |-> VersionCommand(p)])

Condition == "git describe --exact-match master"

\* the keys written after ...props in the object literal of lines 102-117
Authored(p) ==
    [ head      |-> HeadLiteral(p),
      title     |-> Title(p),
      body      |-> Body(p),
      commands  |-> CommandsLiteral(p),
      exports   |-> ExportsLiteral(p),
      condition |-> Condition ]

\* { head: ..., ..., condition: ..., ...props }
AutoPullRequestPropsSpreadLast(p) == Spread(Authored(p), p)

\* { ...props, head: ..., ..., condition: ... }
AutoPullRequestProps(p) == Spread(p, Authored(p))

\* props.exports.VERSION = versionCommand, then exports: props.exports
ConstructWritingExports(p) ==
    [ props |-> IF "exports" \in DOMAIN p
                THEN Spread(p, [exports |-> ExportsLiteral(p)])
                ELSE p,
      pr    |-> AutoPullRequestProps(p) ]

\* the effect of the constructor body: the caller's object after it has run,
\* and the properties handed to `new AutoPullRequest`
Construct(p) == [props |-> p, pr |-> AutoPullRequestProps(p)]

-----------------------------------------------------------------------------
(* The requests a caller can build. *)

ExportKeyPool == <<"VERSION", "FOO", "BAR">>

ExportKeys == {ExportKeyPool[i] : i \in 1..MaxExportKeys}

Field(k, opt) == IF opt = undefined THEN EmptyObject ELSE [x \in {k} |-> opt[1]]

Opt(S) == {undefined} \cup {<<s>> : s \in S}

Repos == {[owner |-> "acme", repo |-> "widgets"], [owner |-> "aws", repo |-> "cdk"]}

Heads ==
    { Field("name", n) @@ Field("sha", s) @@ Field("source", r) :
        n \in Opt({"", "release/$VERSION"}), s \in Opt({"abc123"}), r \in Opt({"f00d"}) }

ExportMaps ==
    UNION { [K -> {"X", "Y"}] : K \in SUBSET ExportKeys }

Requests ==
    { [repo |-> r] @@ Field("bumpCommand", b) @@ Field("versionCommand", v)
        @@ Field("title", t) @@ Field("body", y) @@ Field("head", h)
        @@ Field("exports", e) @@ Field("commands", c) @@ Field("condition", g) :
        r \in Repos,
        b \in Opt({"", "make bump"}),
        v \in Opt({"", "cat VERSION"}),
        t \in Opt({"", "release $VERSION"}),
        y \in Opt({"", "Bump to $VERSION"}),
        h \in Opt(Heads),
        e \in Opt(ExportMaps),
        c \in Opt({<<"rm -rf /", "true">>}),
        g \in Opt({"true"}) }

-----------------------------------------------------------------------------
(* State machine: the caller holds props; `new AutoBump(parent, id, props)` *)
(* builds this.pr once.                                                     *)

Init ==
    /\ props \in Requests
    /\ pr = undefined

Constructor ==
    /\ pr = undefined
    /\ pr' = <<Construct(props).pr>>
    /\ props' = Construct(props).props

Next == Constructor

Spec == Init /\ [][Next]_vars

-----------------------------------------------------------------------------
(* Properties of the properties handed to AutoPullRequest. *)

Built == pr # undefined

out == pr[1]

Supplied(k) == k \in DOMAIN props

HeadSupplied(k) == Supplied("head") /\ k \in DOMAIN props.head

C2_OverridePrecedence ==
    Built =>
    /\ HeadSupplied("name")      => out.head.name = props.head.name
    /\ Supplied("bumpCommand")    => out.commands[1] = props.bumpCommand
    /\ Supplied("versionCommand") => out.exports["VERSION"] = props.versionCommand
    /\ Supplied("title")          => out.title = props.title
    /\ Supplied("body")           => out.body = props.body

C2_Witness ==
    /\ Built
    /\ HeadSupplied("name") /\ props.head.name = "" /\ out.head.name = ""
    /\ Supplied("title") /\ props.title = "release $VERSION"
    /\ ~Supplied("bumpCommand") /\ ~Supplied("versionCommand") /\ ~Supplied("body")

\* C3: when body is absent the output body is the changelog link whose path
\* holds the output head.name; with head.name release/$VERSION (repo
\* acme/widgets) it is the link through release/$VERSION and not the one
\* through bump/$VERSION.
C3_BodyUsesResolvedBranch ==
    (Built /\ ~Supplied("body")) =>
    /\ out.body = "See [CHANGELOG](https://github.com/" \o props.repo.owner \o "/"
                    \o props.repo.repo \o "/blob/" \o out.head.name \o "/CHANGELOG.md)"
    /\ out.head.name = IF HeadSupplied("name") THEN props.head.name ELSE "bump/$VERSION"
    /\ ( /\ HeadSupplied("name")
         /\ props.head.name = "release/$VERSION"
         /\ props.repo = [owner |-> "acme", repo |-> "widgets"] )
       =>
       /\ out.body = "See [CHANGELOG](https://github.com/acme/widgets/blob/release/$VERSION/CHANGELOG.md)"
       /\ out.body # "See [CHANGELOG](https://github.com/acme/widgets/blob/bump/$VERSION/CHANGELOG.md)"

C3_Witness ==
    /\ Built
    /\ ~Supplied("body")
    /\ HeadSupplied("name")
    /\ props.head.name = "release/$VERSION"
    /\ out.body = "See [CHANGELOG](https://github.com/acme/widgets/blob/release/$VERSION/CHANGELOG.md)"

CallerExports == IF Supplied("exports") THEN props.exports ELSE EmptyObject

\* C4: the output exports binds VERSION to the effective version command
\* (versionCommand, else git describe) even when the caller's exports has its
\* own VERSION; every other caller key keeps its value; there is no key
\* besides the caller's keys and VERSION.
C4_ExportsReservation ==
    Built =>
    /\ DOMAIN out.exports = DOMAIN CallerExports \cup {"VERSION"}
    /\ out.exports["VERSION"] =
          IF Supplied("versionCommand") THEN props.versionCommand ELSE "git describe"
    /\ \A k \in DOMAIN CallerExports \ {"VERSION"} : out.exports[k] = CallerExports[k]

C4_Witness ==
    /\ Built
    /\ Supplied("exports")
    /\ DOMAIN props.exports = {"VERSION", "FOO"}
    /\ props.exports["VERSION"] = "X"
    /\ out.exports["VERSION"] = "git describe"
    /\ out.exports["FOO"] = "Y"

\* C5: the output commands is a sequence of exactly one element, the resolved
\* bump command (bumpCommand, else /bin/sh ./bump.sh).
C5_SingleCommand ==
    Built =>
    /\ Len(out.commands) = 1
    /\ out.commands[1] =
          IF Supplied("bumpCommand") THEN props.bumpCommand ELSE "/bin/sh ./bump.sh"

C5_Witness ==
    /\ Built
    /\ Supplied("commands") /\ Len(props.commands) = 2
    /\ Supplied("bumpCommand") /\ props.bumpCommand = "make bump"
    /\ out.commands = <<"make bump">>

\* C6: the output condition is the literal git describe --exact-match master
\* for every request; no input field changes it.
C6_ConditionFixed ==
    Built => out.condition = "git describe --exact-match master"

C6_Witness ==
    /\ Built
    /\ Supplied("condition") /\ props.condition = "true"
    /\ Supplied("head") /\ Supplied("exports") /\ Supplied("title")
    /\ out.condition = "git describe --exact-match master"

\* C7: when bumpCommand is not supplied, the command in the output commands
\* is the default the doc comment of bumpCommand documents, /bin/bash ./bump.sh.
C7_DocumentedBumpDefault ==
    (Built /\ ~Supplied("bumpCommand")) => out.commands = <<"/bin/bash ./bump.sh">>

Without(o, K) == [k \in DOMAIN o \ K |-> o[k]]

\* props with the keys commands and condition, and the key source of head when
\* there is a head, set to the given values (undefined removes the key)
WithRaw(p, c, g, s) ==
    LET base == Without(p, {"commands", "condition", "head"})
        head == IF "head" \in DOMAIN p
                THEN [head |-> Without(p.head, {"source"}) @@ Field("source", s)]
                ELSE EmptyObject
    IN  base @@ head @@ Field("commands", c) @@ Field("condition", g)

Owned(o) == [k \in {"commands", "condition", "head"} |-> o[k]]

RawCommands == {<<>>, <<"echo">>}

RawConditions == {"", "true"}

RawSources == {"f00d", "abc123"}

\* C8: values supplied at commands, condition or head.source are never read:
\* any request differing from props only there yields the same output
\* commands, condition and head, and these are the constructor's own values.
C8_ConfiguratorOwnsKeys ==
    Built =>
    /\ \A c \in Opt(RawCommands), g \in Opt(RawConditions), s \in Opt(RawSources) :
          Owned(AutoPullRequestProps(WithRaw(props, c, g, s))) = Owned(out)
    /\ out.commands =
          <<IF Supplied("bumpCommand") THEN props.bumpCommand ELSE "/bin/sh ./bump.sh">>
    /\ out.condition = "git describe --exact-match master"
    /\ DOMAIN out.head = {"name", "source"}
    /\ out.head.name = IF HeadSupplied("name") THEN props.head.name ELSE "bump/$VERSION"
    /\ out.head.source = IF HeadSupplied("sha") THEN <<props.head.sha>> ELSE undefined

C8_Witness ==
    /\ Built
    /\ Supplied("commands") /\ Supplied("condition")
    /\ HeadSupplied("source") /\ props.head.source = "f00d"
    /\ out.commands # props.commands
    /\ out.condition # props.condition
    /\ out.head.source # <<"f00d">>

\* C9: the output head.name is the resolved branch name and head.source is
\* head.sha verbatim; head.source is undefined exactly when head or head.sha
\* is absent, whether head.name was supplied or defaulted.
C9_HeadAssembly ==
    Built =>
    /\ out.head.name = IF HeadSupplied("name") THEN props.head.name ELSE "bump/$VERSION"
    /\ HeadSupplied("sha") => out.head.source = <<props.head.sha>>
    /\ (out.head.source = undefined) <=> (~Supplied("head") \/ ~HeadSupplied("sha"))

C9_Witness ==
    /\ Built
    /\ Supplied("head") /\ ~HeadSupplied("sha") /\ HeadSupplied("name")
    /\ out.head.source = undefined

\* C10: the constructor leaves the caller's props as they were: the exports
\* map keeps its keys and values (VERSION is added to the output's map only)
\* and head gains no name or source.
C10_InputsNotMutated == [][props' = props]_vars

C10_Witness ==
    /\ Built
    /\ Supplied("exports") /\ "VERSION" \notin DOMAIN props.exports
    /\ "VERSION" \in DOMAIN out.exports
    /\ Supplied("head") /\ DOMAIN props.head = {"sha"}
    /\ DOMAIN out.head = {"name", "source"}

====
